---- MODULE Spec2Model ----
(***************************************************************************)
(* A model of muni_scraper.py: the Database recorder (record, its buffer   *)
(* and the google_responses table), one collection cycle of muniScraper    *)
(* (run, get_times, get_address), the rejection sampler sample_sf and the  *)
(* duration parser parse_times.                                            *)
(*                                                                         *)
(* Python values are modelled as pairs <<type, payload>> with an integer   *)
(* payload, so that isinstance is a test on the type tag.                  *)
(***************************************************************************)
EXTENDS Integers, Sequences, FiniteSets, TLC

(***************************************************************************)
(* Bounds of the model.                                                    *)
(***************************************************************************)
\* largest buffer_size a Database is opened with
MaxBufferSize == 3
\* number of record calls made in one session
MaxCalls == 6
\* longest text parse_times is tried on, the examples apart
MaxLen == 3
\* candidates per axis that random.uniform is drawn from, less one
GridSteps == 6
\* candidates one sample_sf call draws
MaxDraws == 4
\* run calls made in one session
MaxCycles == 2
\* get_traveltimes attempts that fail in one get_times call
MaxAttempts == 2

\* Database objects opened on the path, one after the other
MaxSessions == 2

\* failures of the storage engine in a session
MaxFailures == 1

VARIABLES
    buffer_size,   \* Database.buffer_size
    data_buffer,   \* Database.data_buffer
    table,         \* the committed rows of table google_responses
    writes,        \* number of executemany + commit transactions so far
    accepted,      \* history: the rows record has appended, in order
    calls,         \* history: number of record calls so far
    offered,       \* history: the row the last record call was given
    pc,            \* "closed" before a Database is opened, "open" while the
                   \* session runs, "exited" once it is over
    ret,           \* how the last record call ended: the value returned, or Raised
    store,         \* the file at path: "absent", "empty" (a file without the
                   \* table) or "table"
    pending,       \* rows inserted in the connection's open transaction
    budget,        \* failures the storage engine may still produce
    sessions       \* history: number of Database objects opened on path

dbVars == <<buffer_size, data_buffer, table, writes, accepted, calls, offered, pc,
            ret, store, pending, budget, sessions>>

VARIABLES
    timesdf,       \* muniScraper.timesdf, the class-level frame run writes into
    rpc,           \* where run is: "idle" between two calls
    arrive,        \* run's local arrive
    depart,        \* run's local depart
    gt,            \* what get_times returned
    out,           \* the frame the last run returned, a sequence of rows
    origin,        \* the driver's directions-searchbox-0
    dest,          \* the driver's directions-searchbox-1
    clock,         \* dt.datetime.now(), counted in readings
    cycle,         \* history: number of run calls so far
    attempts,      \* history: failed get_traveltimes attempts of this get_times
    geofail,       \* history: the geocoder raised in this cycle
    late,          \* history: more than wait_time has passed since get_times
                   \* took t0
    geocalls,      \* history: calls of the geocoder in this cycle
    born           \* history: for each entry of timesdf, the cycle that wrote it

runVars == <<timesdf, rpc, arrive, depart, gt, out, origin, dest, clock, cycle,
             attempts, geofail, late, geocalls, born>>

VARIABLES
    timestr,       \* parse_times' argument, a sequence of characters
    parsed         \* its outcome

parseVars == <<timestr, parsed>>

VARIABLES
    sfpoint,       \* sample_sf's local sfpoint
    insf,          \* sample_sf's local insf
    spc,           \* where sample_sf is: "loop" or "returned"
    draws          \* history: candidates drawn so far

sampleVars == <<sfpoint, insf, spc, draws>>

VARIABLES
    tpc,           \* where get_traveltimes is: "click", "wait", "returned", "raised"
    kidx,          \* the position of the loop over dir_dict.keys()
    wait_counter,  \* get_traveltimes' local wait_counter
    shown,         \* what get_cn_text finds on the page: no text, or one
    onewaytimes,   \* get_traveltimes' local onewaytimes
    waited         \* history: the modes whose polls ran out and that had no
                   \* text when it was read

travelVars == <<tpc, kidx, wait_counter, shown, onewaytimes, waited>>

vars == <<dbVars, runVars, parseVars, sampleVars, travelVars>>

(***************************************************************************)
(* Python values.                                                          *)
(***************************************************************************)
NONE == <<"NoneType", 0>>

PyStr(n) == <<"str", n>>

PyFloat(n) == <<"float", n>>

PyInt(n) == <<"int", n>>

\* isinstance(v, t) for the three types record tests against
isinstance(v, t) ==
    CASE t = "object" -> TRUE
      [] t = "float"  -> v[1] = "float"
      [] t = "int"    -> v[1] \in {"int", "bool"}

(***************************************************************************)
(* muniScraper.parse_times                                                 *)
(*                                                                         *)
(* A text is a sequence of one-character strings.  An outcome is           *)
(* [kind, val]: kind "return" with the number returned, or the name of the *)
(* exception raised.                                                       *)
(***************************************************************************)
Digits == {"0", "1", "2", "3", "4", "5", "6", "7", "8", "9"}

DigitVal(c) ==
    CASE c = "0" -> 0 [] c = "1" -> 1 [] c = "2" -> 2 [] c = "3" -> 3
      [] c = "4" -> 4 [] c = "5" -> 5 [] c = "6" -> 6 [] c = "7" -> 7
      [] c = "8" -> 8 [] c = "9" -> 9

Return(n) == [kind |-> "return", val |-> n]

Raise(e) == [kind |-> e, val |-> 0]

\* c in s
In(c, s) == \E i \in 1..Len(s) : s[i] = c

\* pat occurs in s at position i
At(s, i, pat) ==
    /\ i + Len(pat) - 1 <= Len(s)
    /\ \A k \in 1..Len(pat) : s[i + k - 1] = pat[k]

\* s.replace(pat, ""), pat not empty
RECURSIVE Remove(_, _)
Remove(s, pat) ==
    IF s = <<>> THEN <<>>
    ELSE IF At(s, 1, pat) THEN Remove(SubSeq(s, Len(pat) + 1, Len(s)), pat)
    ELSE <<s[1]>> \o Remove(Tail(s), pat)

\* int(s) for a string of digits: ValueError on the empty string
RECURSIVE DigitsVal(_)
DigitsVal(s) ==
    IF s = <<>> THEN 0 ELSE 10 * DigitsVal(SubSeq(s, 1, Len(s) - 1)) + DigitVal(s[Len(s)])

ToInt(s) ==
    IF s # <<>> /\ \A i \in 1..Len(s) : s[i] \in Digits
    THEN Return(DigitsVal(s)) ELSE Raise("ValueError")

\* re.search("[1-9] h", s).group(), <<>> when there is no match (None)
HourSearch(s) ==
    LET hits == {i \in 1..Len(s) : s[i] \in Digits \ {"0"} /\ At(s, i + 1, <<" ", "h">>)}
    IN  IF hits = {} THEN <<>>
        ELSE LET i == CHOOSE j \in hits : \A k \in hits : j <= k
             IN  SubSeq(s, i, i + 2)

\* the longest run of at most two digits at i that " m" follows, -1 if none
MinuteRun(s, i) ==
    LET ks == {k \in 0..2 : /\ \A d \in 0..(k - 1) :
                                  i + d <= Len(s) /\ s[i + d] \in Digits
                            /\ At(s, i + k, <<" ", "m">>)}
    IN  IF ks = {} THEN -1 ELSE CHOOSE k \in ks : \A j \in ks : j <= k

\* re.search("[0-9]{0,2} m", s).group(), <<>> when there is no match (None)
MinuteSearch(s) ==
    LET hits == {i \in 1..Len(s) : MinuteRun(s, i) >= 0}
    IN  IF hits = {} THEN <<>>
        ELSE LET i == CHOOSE j \in hits : \A k \in hits : j <= k
             IN  SubSeq(s, i, i + MinuteRun(s, i) + 1)

\* parse_times(timestr)
parse_times(s) ==
    LET hgroup == HourSearch(s)
        mgroup == MinuteSearch(s)
        hh == IF In("h", s) THEN ToInt(Remove(hgroup, <<" ", "h">>)) ELSE Return(0)
        mm == IF In("m", s) THEN ToInt(Remove(mgroup, <<" ", "m">>)) ELSE Return(0)
    IN  IF In("h", s) /\ hgroup = <<>> THEN Raise("AttributeError")
        ELSE IF hh.kind # "return" THEN hh
        ELSE IF In("m", s) /\ mgroup = <<>> THEN Raise("AttributeError")
        ELSE IF mm.kind # "return" THEN mm
        ELSE Return(hh.val * 60 + mm.val)

\* the texts parse_times is tried on
Alphabet == {"0", "1", "2", "4", "7", " ", "h", "m"}

ExampleTexts ==
    { <<"4", "7", "m">>, <<"1", "h", " ", "1", "2", "m">>, <<"2", "h">>,
      <<"4", "7", " ", "m">>, <<"1", " ", "h", " ", "1", "2", " ", "m">>,
      <<"4", "7", " ", "m", "i", "n">>,
      <<"1", " ", "h", " ", "1", "2", " ", "m", "i", "n">> }

Texts == UNION {[1..n -> Alphabet] : n \in 0..MaxLen} \cup ExampleTexts

Pending == [kind |-> "pending", val |-> 0]

ParseInit ==
    /\ timestr \in Texts
    /\ parsed = Pending

ParseIdle ==
    /\ timestr = <<>>
    /\ parsed = Pending

\* parse_times(timestr) is called
parse_call ==
    /\ parsed = Pending
    /\ parsed' = parse_times(timestr)
    /\ UNCHANGED timestr
    /\ UNCHANGED <<dbVars, runVars, sampleVars, travelVars>>

(***************************************************************************)
(* The perimeter of SF and muniScraper.sample_sf                           *)
(*                                                                         *)
(* Coordinates are in units of 0.0001 degree.                              *)
(***************************************************************************)
\* sf_perim, each vertex <<latitude, longitude>> rounded to 0.0001 degree
sf_perim ==
  <<
     <<377083, -1223937>>, <<377084, -1224855>>, <<377241, -1224850>>, <<377270, -1224838>>,
     <<377293, -1224856>>, <<377303, -1224895>>, <<377289, -1224918>>, <<377296, -1224937>>,
     <<377291, -1224966>>, <<377315, -1224987>>, <<377254, -1225035>>, <<377270, -1225061>>,
     <<377327, -1225074>>, <<377354, -1225068>>, <<377750, -1225113>>, <<377787, -1225137>>,
     <<377799, -1225094>>, <<377808, -1225096>>, <<377817, -1224933>>, <<377875, -1224938>>,
     <<377879, -1224919>>, <<377871, -1224912>>, <<377884, -1224898>>, <<377888, -1224900>>,
     <<377903, -1224857>>, <<378109, -1224771>>, <<378094, -1224760>>, <<378086, -1224717>>,
     <<378036, -1224596>>, <<378044, -1224530>>, <<378056, -1224539>>, <<378067, -1224478>>,
     <<378052, -1224473>>, <<378059, -1224423>>, <<378066, -1224425>>, <<378075, -1224359>>,
     <<378063, -1224357>>, <<378050, -1224338>>, <<378061, -1224255>>, <<378079, -1224217>>,
     <<378081, -1224178>>, <<378083, -1224158>>, <<378091, -1224159>>, <<378089, -1224127>>,
     <<378078, -1224075>>, <<378064, -1224047>>, <<378038, -1224015>>, <<377926, -1223910>>,
     <<377911, -1223890>>, <<377896, -1223884>>, <<377880, -1223877>>, <<377784, -1223875>>,
     <<377771, -1223904>>, <<377765, -1223899>>, <<377766, -1223875>>, <<377715, -1223867>>,
     <<377688, -1223851>>, <<377653, -1223866>>, <<377636, -1223871>>, <<377631, -1223865>>,
     <<377631, -1223852>>, <<377621, -1223853>>, <<377618, -1223833>>, <<377596, -1223819>>,
     <<377595, -1223814>>, <<377581, -1223813>>, <<377577, -1223816>>, <<377553, -1223812>>,
     <<377551, -1223842>>, <<377545, -1223841>>, <<377545, -1223831>>, <<377545, -1223831>>,
     <<377532, -1223831>>, <<377531, -1223841>>, <<377484, -1223823>>, <<377481, -1223863>>,
     <<377478, -1223904>>, <<377488, -1223930>>, <<377475, -1223933>>, <<377466, -1223908>>,
     <<377469, -1223757>>, <<377401, -1223680>>, <<377397, -1223741>>, <<377329, -1223758>>,
     <<377321, -1223742>>, <<377341, -1223722>>, <<377317, -1223691>>, <<377316, -1223651>>,
     <<377299, -1223622>>, <<377281, -1223621>>, <<377285, -1223575>>, <<377262, -1223579>>,
     <<377257, -1223655>>, <<377236, -1223630>>, <<377221, -1223642>>, <<377199, -1223630>>,
     <<377168, -1223642>>, <<377250, -1223778>>, <<377226, -1223811>>, <<377248, -1223871>>,
     <<377217, -1223832>>, <<377204, -1223838>>, <<377161, -1223763>>, <<377094, -1223817>>,
     <<377105, -1223905>>, <<377081, -1223938>>
  >>

lats == {sf_perim[i][1] : i \in 1..Len(sf_perim)}

lons == {sf_perim[i][2] : i \in 1..Len(sf_perim)}

SetMin(S) == CHOOSE x \in S : \A y \in S : x <= y

SetMax(S) == CHOOSE x \in S : \A y \in S : x >= y

ymin == SetMin(lats)

ymax == SetMax(lats)

xmin == SetMin(lons)

xmax == SetMax(lons)

\* the edge from vertex i to the next one (the path is closed from the last
\* vertex back to the first) crosses the ray from pt towards greater longitude
Crosses(i, pt) ==
    LET a == sf_perim[i]
        b == sf_perim[IF i = Len(sf_perim) THEN 1 ELSE i + 1]
    IN  /\ (a[1] > pt[1]) # (b[1] > pt[1])
        /\ IF b[1] > a[1]
           THEN (pt[2] - a[2]) * (b[1] - a[1]) < (b[2] - a[2]) * (pt[1] - a[1])
           ELSE (pt[2] - a[2]) * (b[1] - a[1]) > (b[2] - a[2]) * (pt[1] - a[1])

\* sfPath.contains_point(pt): 1 (True) inside the perimeter, 0 (False) outside
contains_point(pt) ==
    IF Cardinality({i \in 1..Len(sf_perim) : Crosses(i, pt)}) % 2 = 1 THEN 1 ELSE 0

\* in_sf(tup)
in_sf(tup) == contains_point(tup) = 1

\* the values random.uniform(lo, hi) is drawn from: a grid over [lo, hi]
Uniform(lo, hi) == {lo + (i * (hi - lo)) \div GridSteps : i \in 0..GridSteps}

\* the candidates of one iteration of sample_sf
Candidates == Uniform(ymin, ymax) \X Uniform(xmin, xmax)

NoPoint == <<0, 0>>

SampleInit ==
    /\ sfpoint = NoPoint
    /\ insf = 0
    /\ spc = "loop"
    /\ draws = 0

SampleIdle ==
    /\ sfpoint = NoPoint
    /\ insf = 0
    /\ spc = "idle"
    /\ draws = 0

\* the loop test of sample_sf
sample_again(v) == ~(v = 1)

\* an iteration that tests one candidate and keeps another
sample_draw_retest ==
    /\ spc = "loop"
    /\ sample_again(insf)
    /\ draws < MaxDraws
    /\ \E cand \in Candidates, other \in Candidates :
          /\ sfpoint' = other
          /\ insf' = contains_point(cand)
    /\ draws' = draws + 1
    /\ UNCHANGED spc
    /\ UNCHANGED <<dbVars, runVars, parseVars, travelVars>>

\* one iteration of the loop of sample_sf
sample_draw ==
    /\ spc = "loop"
    /\ sample_again(insf)
    /\ draws < MaxDraws
    /\ \E cand \in Candidates :
          /\ sfpoint' = cand
          /\ insf' = contains_point(cand)
    /\ draws' = draws + 1
    /\ UNCHANGED spc
    /\ UNCHANGED <<dbVars, runVars, parseVars, travelVars>>

\* return sfpoint
sample_return ==
    /\ spc = "loop"
    /\ ~sample_again(insf)
    /\ spc' = "returned"
    /\ UNCHANGED <<sfpoint, insf, draws>>
    /\ UNCHANGED <<dbVars, runVars, parseVars, travelVars>>

(***************************************************************************)
(* muniScraper.run and what it calls                                       *)
(*                                                                         *)
(* A row of a frame is a function from the column names to values.  The    *)
(* geocoder and the driver are outside the program: a call of theirs has   *)
(* every outcome they can produce.                                         *)
(***************************************************************************)
\* muniScraper.columns
columns == <<"arrive_add", "arrive_lat", "arrive_lon", "bicycle", "depart_add",
             "depart_lat", "depart_lon", "driving", "transit", "walk", "timestamp">>

Columns == {columns[i] : i \in 1..Len(columns)}

\* the keys of dir_dict
Modes == {"driving", "transit", "walk", "bicycle"}

CoordColumns == {"arrive_lat", "arrive_lon", "depart_lat", "depart_lon"}

\* pd.DataFrame(columns=columns, index=(0,1)): every cell is NaN
NaNRow == [c \in Columns |-> NONE]

\* points sample_sf returns, as sample_locations hands them to run
SamplePoints == {p \in {<<377500, -1224500>>, <<377600, -1224000>>} : in_sf(p)}

\* the duration text the page shows for a mode once it has loaded
PageText(mode) ==
    CASE mode = "driving" -> <<"1", "2", " ", "m", "i", "n">>
      [] mode = "transit" -> <<"4", "7", " ", "m", "i", "n">>
      [] mode = "bicycle" -> <<"2", "0", " ", "m", "i", "n">>
      [] mode = "walk"    -> <<"1", " ", "h", " ", "1", "2", " ", "m", "i", "n">>

\* the sets of modes whose text appears within the polls that are tried:
\* all of them, all but transit, none
LoadedSets == {Modes, Modes \ {"transit"}, {}}

\* the mappings get_traveltimes returns: for each mode parse_times of the
\* text found, or None when no text appeared within the polls
TravelTimes ==
    { [m \in Modes |-> IF m \in loaded THEN PyInt(parse_times(PageText(m)).val) ELSE NONE]
        : loaded \in LoadedSets }

\* what get_times returned: None, or a mapping
NoTimes == [isNone |-> TRUE, times |-> [m \in Modes |-> NONE]]

Times(m) == [isNone |-> FALSE, times |-> m]

\* the default of wait_time
wait_time == 15000000

\* the address the geocoder knows for a point
AddressOf(pt) == PyStr(pt[1] % 1000)

\* loc.address of geolocator.reverse(latlon), when the call returns
GeocodeResults(pt) == {AddressOf(pt), NONE}

\* pd.isnull
isnull(v) == v = NONE

\* row.isnull().sum() == 0 with only the coordinates counted
NoNullCoords(row) == \A c \in CoordColumns : ~isnull(row[c])

\* row.isnull().sum() == 0
NoNulls(row) == \A c \in Columns : ~isnull(row[c])

\* df.ix[df.isnull().sum(1) == 0]: the rows 0, 1 without a null, in index order
Select(df) ==
    (IF NoNulls(df[0]) THEN <<df[0]>> ELSE <<>>) \o (IF NoNulls(df[1]) THEN <<df[1]>> ELSE <<>>)

\* column.astype(t) on one value
astype(v, t) == <<t, v[2]>>

\* the three astype loops at the end of run, on one row
Retyped(row) ==
    [c \in Columns |->
        IF c \in CoordColumns THEN astype(row[c], "float64")
        ELSE IF c \in Modes THEN astype(row[c], "int64")
        ELSE IF c = "timestamp" THEN astype(row[c], "str")
        ELSE row[c]]

\* pd.to_datetime(dt.datetime.now()) at reading n of the clock
Timestamp(n) == <<"Timestamp", n>>

\* the keys written when only the durations that are not None are stored
TimesLoaded(g) == IF g.isNone THEN {} ELSE {c \in Modes : g.times[c] # NONE}

\* the keys 'if gt: for key, val in gt.items()' writes into the row
TimesWritten(g) == IF g.isNone THEN {} ELSE Modes

\* row with the entries of mapping gt written into it, if gt is truthy
WithTimes(row, g) ==
    [c \in Columns |-> IF c \in TimesWritten(g) THEN g.times[c] ELSE row[c]]

\* the cycles of a row's entries after WithTimes and the timestamp, in cycle n
BornWithTimes(b, g, n) ==
    [c \in Columns |-> IF c \in TimesWritten(g) \cup {"timestamp"} THEN n ELSE b[c]]

\* row 1 with the coordinates of the swapped arrive_ and depart_ but the
\* addresses of row 0 as they are
ReturnRowSameAddresses(row1, row0, arrive_, depart_) ==
    [row1 EXCEPT !["arrive_lat"] = PyFloat(arrive_[1]),
                 !["arrive_lon"] = PyFloat(arrive_[2]),
                 !["depart_lat"] = PyFloat(depart_[1]),
                 !["depart_lon"] = PyFloat(depart_[2]),
                 !["arrive_add"] = row0["arrive_add"],
                 !["depart_add"] = row0["depart_add"]]

\* row 1 as run writes it after 'arrive, depart = depart, arrive': the
\* coordinates of the swapped locals, the addresses of row 0 swapped
ReturnRow(row1, row0, arrive_, depart_) ==
    [row1 EXCEPT !["arrive_lat"] = PyFloat(arrive_[1]),
                 !["arrive_lon"] = PyFloat(arrive_[2]),
                 !["depart_lat"] = PyFloat(depart_[1]),
                 !["depart_lon"] = PyFloat(depart_[2]),
                 !["arrive_add"] = row0["depart_add"],
                 !["depart_add"] = row0["arrive_add"]]

RunInit ==
    /\ timesdf = [i \in {0, 1} |-> NaNRow]
    /\ rpc = "idle"
    /\ arrive = NoPoint
    /\ depart = NoPoint
    /\ gt = NoTimes
    /\ out = <<>>
    /\ origin = NoPoint
    /\ dest = NoPoint
    /\ clock = 0
    /\ cycle = 0
    /\ attempts = 0
    /\ geofail = FALSE
    /\ late = FALSE
    /\ geocalls = 0
    /\ born = [i \in {0, 1} |-> [c \in Columns |-> 0]]

RunIdle ==
    /\ timesdf = <<>>
    /\ rpc = "off"
    /\ arrive = NoPoint
    /\ depart = NoPoint
    /\ gt = NoTimes
    /\ out = <<>>
    /\ origin = NoPoint
    /\ dest = NoPoint
    /\ clock = 0
    /\ cycle = 0
    /\ attempts = 0
    /\ geofail = FALSE
    /\ late = FALSE
    /\ geocalls = 0
    /\ born = <<>>

\* run is called: timesdf = self.timesdf; arrive, depart = self.sample_locations()
run_begin ==
    /\ rpc = "idle"
    /\ cycle < MaxCycles
    /\ arrive' \in SamplePoints
    /\ depart' \in SamplePoints
    /\ rpc' = "address_arrive"
    /\ cycle' = cycle + 1
    /\ out' = <<>>
    /\ geocalls' = 0
    /\ UNCHANGED <<timesdf, gt, origin, dest, clock, attempts, geofail, late, born>>
    /\ UNCHANGED <<dbVars, parseVars, sampleVars, travelVars>>

\* one pass of the first loop of run: the coordinates of dirtpl go into row 0,
\* then get_address(dirtpl), whose exception nothing in run catches
run_address ==
    /\ rpc \in {"address_arrive", "address_depart"}
    /\ LET dirstr == IF rpc = "address_arrive" THEN "arrive" ELSE "depart"
           dirtpl == IF rpc = "address_arrive" THEN arrive ELSE depart
           placed == [timesdf[0] EXCEPT ![dirstr \o "_lat"] = PyFloat(dirtpl[1]),
                                        ![dirstr \o "_lon"] = PyFloat(dirtpl[2])]
           bplaced == [born[0] EXCEPT ![dirstr \o "_lat"] = cycle,
                                      ![dirstr \o "_lon"] = cycle]
       IN  \/ \E address \in GeocodeResults(dirtpl) :
                 /\ timesdf' = [timesdf EXCEPT ![0] =
                                   [placed EXCEPT ![dirstr \o "_add"] = address]]
                 /\ born' = [born EXCEPT ![0] =
                                   [bplaced EXCEPT ![dirstr \o "_add"] = cycle]]
                 /\ rpc' = IF rpc = "address_arrive" THEN "address_depart" ELSE "initialize"
                 /\ UNCHANGED geofail
           \/ /\ timesdf' = [timesdf EXCEPT ![0] = placed]
              /\ born' = [born EXCEPT ![0] = bplaced]
              /\ rpc' = "raised"
              /\ geofail' = TRUE
    /\ geocalls' = geocalls + 1
    /\ UNCHANGED <<arrive, depart, gt, out, origin, dest, clock, cycle, attempts, late>>
    /\ UNCHANGED <<dbVars, parseVars, sampleVars, travelVars>>

\* initialize_directions(depart, arrive): box 0 takes its first argument
initialize_directions(depart_, arrive_) ==
    /\ origin' = depart_
    /\ dest' = arrive_

\* self.initialize_directions(arrive, depart)
run_initialize ==
    /\ rpc = "initialize"
    /\ initialize_directions(arrive, depart)
    /\ rpc' = "times0"
    /\ UNCHANGED <<timesdf, arrive, depart, gt, out, clock, cycle, attempts, geofail,
                   late, geocalls, born>>
    /\ UNCHANGED <<dbVars, parseVars, sampleVars, travelVars>>

\* get_times: an attempt of get_traveltimes raises, the bare except swallows
\* it, wttm keeps its 0 and the loop goes round; the attempt took its time
get_times_retry ==
    /\ rpc \in {"times0", "times1"}
    /\ 0 <= wait_time
    /\ attempts < MaxAttempts
    /\ attempts' = attempts + 1
    /\ late' \in {late, TRUE}
    /\ UNCHANGED <<timesdf, rpc, arrive, depart, gt, out, origin, dest, clock, cycle,
                   geofail, geocalls, born>>
    /\ UNCHANGED <<dbVars, parseVars, sampleVars, travelVars>>

\* get_times: get_traveltimes returns its mapping, which ends the loop
get_times_return ==
    /\ rpc \in {"times0", "times1"}
    /\ 0 <= wait_time
    /\ \E m \in TravelTimes : gt' = Times(m)
    /\ rpc' = IF rpc = "times0" THEN "stamp0" ELSE "stamp1"
    /\ attempts' = 0
    /\ late' = FALSE
    /\ UNCHANGED <<timesdf, arrive, depart, out, origin, dest, clock, cycle, geofail,
                   geocalls, born>>
    /\ UNCHANGED <<dbVars, parseVars, sampleVars, travelVars>>

\* run from the first get_times to the second: row 0 is stamped and takes the
\* durations, arrive and depart are swapped, row 1 takes the coordinates and
\* the addresses of row 0 swapped, and reverse_direction swaps the boxes
run_outbound ==
    /\ rpc = "stamp0"
    /\ clock' = clock + 1
    /\ arrive' = depart
    /\ depart' = arrive
    /\ LET row0 == WithTimes([timesdf[0] EXCEPT !["timestamp"] = Timestamp(clock + 1)], gt)
           row1 == ReturnRow(timesdf[1], row0, depart, arrive)
           b0   == BornWithTimes(born[0], gt, cycle)
           b1   == [born[1] EXCEPT !["arrive_lat"] = cycle,
                                   !["arrive_lon"] = cycle,
                                   !["depart_lat"] = cycle,
                                   !["depart_lon"] = cycle,
                                   !["arrive_add"] = b0["depart_add"],
                                   !["depart_add"] = b0["arrive_add"]]
       IN  /\ timesdf' = [timesdf EXCEPT ![0] = row0, ![1] = row1]
           /\ born' = [born EXCEPT ![0] = b0, ![1] = b1]
    /\ origin' = dest
    /\ dest' = origin
    /\ rpc' = "times1"
    /\ gt' = NoTimes
    /\ UNCHANGED <<out, cycle, attempts, geofail, late, geocalls>>
    /\ UNCHANGED <<dbVars, parseVars, sampleVars, travelVars>>

\* run from the second get_times to its return: row 1 is stamped and takes the
\* durations, the rows without a null are kept and retyped; the locals go
run_return ==
    /\ rpc = "stamp1"
    /\ clock' = clock + 1
    /\ LET row1 == WithTimes([timesdf[1] EXCEPT !["timestamp"] = Timestamp(clock + 1)], gt)
           df   == [timesdf EXCEPT ![1] = row1]
           kept == Select(df)
       IN  /\ timesdf' = df
           /\ out' = [i \in 1..Len(kept) |-> Retyped(kept[i])]
    /\ born' = [born EXCEPT ![1] = BornWithTimes(born[1], gt, cycle)]
    /\ rpc' = "idle"
    /\ arrive' = NoPoint
    /\ depart' = NoPoint
    /\ gt' = NoTimes
    /\ UNCHANGED <<origin, dest, cycle, attempts, geofail, late, geocalls>>
    /\ UNCHANGED <<dbVars, parseVars, sampleVars, travelVars>>

(***************************************************************************)
(* muniScraper.get_traveltimes, step by step.  The page is outside the      *)
(* program: after the click and after each sleep it shows the mode's text   *)
(* or none.                                                                 *)
(***************************************************************************)
\* dir_dict.keys(), in the order the loop takes them
dir_keys == <<"driving", "transit", "walk", "bicycle">>

\* the number of polls the wait loop allows
poll_limit == 10

\* get_cn_text(wpsdtd) for a mode: the list of the non-empty texts
PageStates(mode) == {<<>>, <<PageText(mode)>>}

TravelInit ==
    /\ tpc = "click"
    /\ kidx = 1
    /\ wait_counter = 0
    /\ shown = <<>>
    /\ onewaytimes = <<>>
    /\ waited = {}

TravelIdle ==
    /\ tpc = "off"
    /\ kidx = 1
    /\ wait_counter = 0
    /\ shown = <<>>
    /\ onewaytimes = <<>>
    /\ waited = {}

\* a wait loop that polls once more than the limit
wait_more_late(wc, txt) == wc <= poll_limit /\ Len(txt) < 1

\* the test of the wait loop
wait_more(wc, txt) == wc < poll_limit /\ Len(txt) < 1

\* the mode's icon is found, hovered and clicked; sleep(1); wait_counter = 0
travel_click ==
    /\ tpc = "click"
    /\ tpc' = "wait"
    /\ wait_counter' = 0
    /\ shown' \in PageStates(dir_keys[kidx])
    /\ UNCHANGED <<kidx, onewaytimes, waited>>
    /\ UNCHANGED <<dbVars, runVars, parseVars, sampleVars>>

\* find_element or click raises: get_traveltimes ends with the exception
travel_click_raises ==
    /\ tpc = "click"
    /\ tpc' = "raised"
    /\ UNCHANGED <<kidx, wait_counter, shown, onewaytimes, waited>>
    /\ UNCHANGED <<dbVars, runVars, parseVars, sampleVars>>

\* one iteration of the wait loop: sleep(1 / e); wait_counter += 1
travel_poll ==
    /\ tpc = "wait"
    /\ wait_more(wait_counter, shown)
    /\ wait_counter' = wait_counter + 1
    /\ shown' \in PageStates(dir_keys[kidx])
    /\ UNCHANGED <<tpc, kidx, onewaytimes, waited>>
    /\ UNCHANGED <<dbVars, runVars, parseVars, sampleVars>>

\* the wait loop is over: text = get_cn_text(wpsdtd), read anew; the entry of
\* the mode is parse_times(text[0]) or None; then the next key, or the return
travel_read ==
    /\ tpc = "wait"
    /\ ~wait_more(wait_counter, shown)
    /\ LET key == dir_keys[kidx]
       IN  \E text \in PageStates(key) \cup {shown} :
              LET res == IF text # <<>> THEN parse_times(text[1]) ELSE Return(0)
                  val == IF text # <<>> THEN PyInt(res.val) ELSE NONE
              IN  IF res.kind # "return"
                  THEN /\ tpc' = "raised"
                       /\ UNCHANGED <<kidx, onewaytimes, waited>>
                  ELSE /\ onewaytimes' =
                             [m \in DOMAIN onewaytimes \cup {key} |->
                                 IF m = key THEN val ELSE onewaytimes[m]]
                       /\ waited' = IF wait_counter = poll_limit /\ shown = <<>> /\ text = <<>>
                                     THEN waited \cup {key} ELSE waited
                       /\ tpc' = IF kidx < Len(dir_keys) THEN "click" ELSE "returned"
                       /\ kidx' = IF kidx < Len(dir_keys) THEN kidx + 1 ELSE kidx
    /\ UNCHANGED <<wait_counter, shown>>
    /\ UNCHANGED <<dbVars, runVars, parseVars, sampleVars>>

(***************************************************************************)
(* Database                                                                *)
(***************************************************************************)
fields == <<"arrive_add", "arrive_lat", "arrive_lon", "bicycle", "depart_add",
            "depart_lat", "depart_lon", "driving", "transit", "walk", "timestamp">>

\* the tuple of types record enumerates, one per field
record_types == <<"object", "float", "float", "int", "object", "float",
            "float", "int", "int", "int", "object">>

\* a complete row as a cycle hands it over; n tells the rows apart
MkRow(n) ==
    <<PyStr(1), PyFloat(377500), PyFloat(-1224500), PyInt(20), PyStr(2), PyFloat(377600),
      PyFloat(-1224000), PyInt(10), PyInt(30), PyInt(40), PyStr(n)>>

\* <<field index, value>>: one field of a complete row replaced
Faults ==
    { <<1, NONE>>,        \* null arrive_add
      <<11, NONE>>,       \* null timestamp
      <<2, PyStr(9)>>,      \* non-numeric coordinate
      <<3, NONE>>,        \* null coordinate
      <<6, PyInt(37)>>,     \* integer where a float is expected
      <<4, NONE>>,        \* null duration
      <<10, PyFloat(1)>> }  \* float where an integer is expected

\* the rows the n-th call may be given
Rows(n) ==
    {MkRow(n)} \cup {[MkRow(n) EXCEPT ![f[1]] = f[2]] : f \in Faults}

\* how a call ends that raises, and ret before any call
Raised == <<"raised", 0>>

Unset == <<"unset", 0>>

PyBool(n) == <<"bool", n>>

\* Database.__init__ on a path that does not exist yet
DbInit ==
    /\ buffer_size \in 1..MaxBufferSize
    /\ data_buffer = <<>>
    /\ table = <<>>
    /\ writes = 0
    /\ accepted = <<>>
    /\ calls = 0
    /\ offered = <<>>
    /\ pc = "open"
    /\ ret = Unset
    /\ store = "table"
    /\ pending = <<>>
    /\ sessions = 1

\* a storage engine that does not fail
Reliable == budget = 0

\* a storage engine that may fail MaxFailures writes
Unreliable == budget = MaxFailures

\* the path before the program starts: no file, a file without the table,
\* or the database an earlier session wrote a row into
Closed ==
    /\ store \in {"absent", "empty", "table"}
    /\ table = IF store = "table" THEN <<MkRow(0)>> ELSE <<>>
    /\ buffer_size = 1
    /\ data_buffer = <<>>
    /\ writes = 0
    /\ accepted = <<>>
    /\ calls = 0
    /\ offered = <<>>
    /\ pc = "closed"
    /\ ret = Unset
    /\ pending = <<>>
    /\ sessions = 0

\* Database(path, buffer_size): create = not isfile(path); connect; the table
\* is created if create; the buffer is empty.  A connection dropped before
\* had its open transaction rolled back.
Open ==
    /\ pc \in {"closed", "exited"}
    /\ sessions < MaxSessions
    /\ LET create == store = "absent"
       IN  store' = IF create THEN "table" ELSE store
    /\ buffer_size' \in 1..MaxBufferSize
    /\ data_buffer' = <<>>
    /\ pending' = <<>>
    /\ accepted' = <<>>
    /\ ret' = Unset
    /\ pc' = "open"
    /\ sessions' = sessions + 1
    /\ UNCHANGED <<table, writes, calls, offered, budget>>
    /\ UNCHANGED <<runVars, parseVars, sampleVars, travelVars>>

\* the loop over the fields finds one that is no instance of its type
fails_check(data) ==
    \E idx \in 1..11 : ~isinstance(data[idx], record_types[idx])

\* print("failed!"); return None
rejected ==
    /\ ret' = NONE
    /\ UNCHANGED <<data_buffer, table, writes, accepted, pending, budget>>

\* the test of the flush is false: record ends, returning None
buffered(buf) ==
    /\ data_buffer' = buf
    /\ ret' = NONE
    /\ UNCHANGED <<table, writes, pending, budget>>

\* a flush that leaves the rows it wrote in data_buffer
flush_keep(buf) ==
    /\ store = "table"
    /\ table' = table \o pending \o buf
    /\ pending' = <<>>
    /\ writes' = writes + 1
    /\ data_buffer' = buf
    /\ ret' = NONE
    /\ UNCHANGED budget

\* executemany(insert_cmd, data_buffer); commit(); data_buffer = [] with buf
\* in data_buffer.  The inserts join the connection's open transaction and
\* commit writes it.  Without the table executemany raises at once.  A
\* storage failure raises after k inserts (k = Len(buf): in commit); nothing
\* is rolled back and data_buffer keeps its rows.
flush(buf) ==
    \/ /\ store = "table"
       /\ table' = table \o pending \o buf
       /\ pending' = <<>>
       /\ writes' = writes + 1
       /\ data_buffer' = <<>>
       /\ ret' = NONE
       /\ UNCHANGED budget
    \/ /\ store = "table"
       /\ budget > 0
       /\ \E k \in 0..Len(buf) : pending' = pending \o SubSeq(buf, 1, k)
       /\ budget' = budget - 1
       /\ data_buffer' = buf
       /\ ret' = Raised
       /\ UNCHANGED <<table, writes>>
    \/ /\ store # "table"
       /\ data_buffer' = buf
       /\ ret' = Raised
       /\ UNCHANGED <<table, writes, pending, budget>>

\* record with '>' in place of '>=' in the flush test
record_late(data) ==
    IF fails_check(data)
    THEN rejected
    ELSE /\ accepted' = Append(accepted, data)
         /\ LET buf == Append(data_buffer, data)
            IN  IF Len(buf) > buffer_size THEN flush(buf) ELSE buffered(buf)

\* record appending the row before it checks the fields
record_unchecked(data) ==
    /\ accepted' = IF fails_check(data) THEN accepted ELSE Append(accepted, data)
    /\ LET buf == Append(data_buffer, data)
       IN  IF Len(buf) >= buffer_size THEN flush(buf) ELSE buffered(buf)

\* record keeping the rows it has written in the buffer
record_keep(data) ==
    IF fails_check(data)
    THEN rejected
    ELSE /\ accepted' = Append(accepted, data)
         /\ LET buf == Append(data_buffer, data)
            IN  IF Len(buf) >= buffer_size THEN flush_keep(buf) ELSE buffered(buf)

\* record putting the row at the head of the buffer
record_prepend(data) ==
    IF fails_check(data)
    THEN rejected
    ELSE /\ accepted' = Append(accepted, data)
         /\ LET buf == <<data>> \o data_buffer
            IN  IF Len(buf) >= buffer_size THEN flush(buf) ELSE buffered(buf)

\* Database.record(data)
record(data) ==
    IF fails_check(data)
    THEN rejected
    ELSE /\ accepted' = Append(accepted, data)
         /\ LET buf == Append(data_buffer, data)
            IN  IF Len(buf) >= buffer_size THEN flush(buf) ELSE buffered(buf)

\* one gdb.record(dat) of the session's loop
Record ==
    /\ pc = "open"
    /\ calls < MaxCalls
    /\ \E data \in Rows(calls + 1) : record(data) /\ offered' = data
    /\ calls' = calls + 1
    /\ UNCHANGED <<buffer_size, pc, store, sessions>>
    /\ UNCHANGED <<runVars, parseVars, sampleVars, travelVars>>

\* the session ends: the loop is over and the Database object is dropped;
\* the class has no method that writes data_buffer out
Exit ==
    /\ pc = "open"
    /\ pc' = "exited"
    /\ UNCHANGED <<buffer_size, data_buffer, table, writes, accepted, calls, offered,
                   ret, store, pending, budget, sessions>>
    /\ UNCHANGED <<runVars, parseVars, sampleVars, travelVars>>

(***************************************************************************)
(* Specifications                                                          *)
(***************************************************************************)
DbIdle ==
    /\ buffer_size = 1
    /\ data_buffer = <<>>
    /\ table = <<>>
    /\ writes = 0
    /\ accepted = <<>>
    /\ calls = 0
    /\ offered = <<>>
    /\ pc = "idle"
    /\ ret = Unset
    /\ store = "absent"
    /\ pending = <<>>
    /\ budget = 0
    /\ sessions = 0

Init == DbInit /\ Reliable /\ RunIdle /\ ParseIdle /\ SampleIdle /\ TravelIdle

InitParse == ParseInit /\ DbIdle /\ RunIdle /\ SampleIdle /\ TravelIdle

InitSample == SampleInit /\ DbIdle /\ RunIdle /\ ParseIdle /\ TravelIdle

InitRun == RunInit /\ DbIdle /\ ParseIdle /\ SampleIdle /\ TravelIdle

InitFail == DbInit /\ Unreliable /\ RunIdle /\ ParseIdle /\ SampleIdle /\ TravelIdle

InitOpen == Closed /\ Reliable /\ RunIdle /\ ParseIdle /\ SampleIdle /\ TravelIdle

Next ==
    \/ Record
    \/ Exit

\* the recorder under any sequence of record calls, then the end of the session
Spec == Init /\ [][Next]_vars

\* the same session on a storage engine whose writes may fail
SpecFail == InitFail /\ [][Next]_vars

OpenNext ==
    \/ Open
    \/ Record
    \/ Exit

\* sessions on one path, each opening a Database on what the last one left
SpecOpen == InitOpen /\ [][OpenNext]_vars

ParseNext == parse_call

\* parse_times applied to each text of Texts
SpecParse == InitParse /\ [][ParseNext]_vars

SampleNext ==
    \/ sample_draw
    \/ sample_return

RunNext ==
    \/ run_begin
    \/ run_address
    \/ run_initialize
    \/ get_times_retry
    \/ get_times_return
    \/ run_outbound
    \/ run_return

\* a session of run calls, one after the other
SpecRun == InitRun /\ [][RunNext]_vars

\* one call of sample_sf
SpecSample == InitSample /\ [][SampleNext]_vars

InitTravel == TravelInit /\ DbIdle /\ RunIdle /\ ParseIdle /\ SampleIdle

TravelNext ==
    \/ travel_click
    \/ travel_click_raises
    \/ travel_poll
    \/ travel_read

\* one call of get_traveltimes
SpecTravel == InitTravel /\ [][TravelNext]_vars

(***************************************************************************)
(* Properties                                                              *)
(***************************************************************************)

\* C1: with buffer_size >= 1, a record call that accepts its row appends it to
\* data_buffer and writes nothing while the new length is below buffer_size;
\* the call that brings the length to buffer_size writes exactly those
\* buffer_size rows in one transaction and leaves data_buffer empty.
C1_RecordBuffersThenFlushes ==
    [][ Len(accepted') = Len(accepted) + 1 =>
          LET row == accepted'[Len(accepted')]
          IN  IF Len(data_buffer) + 1 < buffer_size
              THEN /\ data_buffer' = Append(data_buffer, row)
                   /\ table' = table
                   /\ writes' = writes
              ELSE /\ Len(data_buffer) + 1 = buffer_size
                   /\ table' = table \o Append(data_buffer, row)
                   /\ Len(table') = Len(table) + buffer_size
                   /\ writes' = writes + 1
                   /\ data_buffer' = <<>> ]_vars

\* a flush has happened and the buffer has grown again since
C1_Witness ==
    /\ buffer_size >= 2
    /\ writes >= 1
    /\ Len(data_buffer) >= 1

\* C2: after n accepted rows the table holds buffer_size * (n div buffer_size)
\* rows and the buffer n mod buffer_size rows.
C2_StoredAndBufferedCounts ==
    LET n == Len(accepted)
    IN  /\ Len(table) = buffer_size * (n \div buffer_size)
        /\ Len(data_buffer) = n % buffer_size

\* buffer_size 3 and four calls, all accepted: 3 rows stored, 1 buffered
C2_Witness ==
    /\ buffer_size = 3
    /\ calls = 4
    /\ Len(accepted) = 4
    /\ Len(table) = 3
    /\ Len(data_buffer) = 1

\* a row with a coordinate that is no float or a duration that is no integer
BadRow(data) ==
    \/ \E i \in {2, 3, 6, 7} : data[i][1] # "float"
    \/ \E i \in {4, 8, 9, 10} : data[i][1] \notin {"int", "bool"}

\* C3: a record call given a row with a field of the wrong type changes neither
\* the buffer nor the table, and the session goes on.
C3_BadRowChangesNothing ==
    [][ (calls' = calls + 1 /\ BadRow(offered')) =>
          /\ data_buffer' = data_buffer
          /\ table' = table
          /\ writes' = writes
          /\ accepted' = accepted
          /\ pc' = "open" ]_vars

\* a call was rejected, and the call after it was accepted and written
C3_Witness ==
    /\ calls > Len(accepted)
    /\ Len(accepted) > 0
    /\ offered = accepted[Len(accepted)]
    /\ offered[11] = PyStr(calls)
    /\ table # <<>>
    /\ table[Len(table)] = offered

\* C4: every row of the table has all eleven fields non-null.
C4_StoredRowsHaveNoNull ==
    \A i \in 1..Len(table) : \A f \in 1..11 : table[i][f] # NONE

\* C11: after a record call the value returned is True if the row was
\* appended to the buffer and False if it was rejected.
C11_ReturnTellsOutcome ==
    (calls > 0 /\ ret # Raised) =>
        ret = IF accepted # <<>> /\ accepted[Len(accepted)] = offered
              THEN PyBool(1) ELSE PyBool(0)

\* s is the beginning of t
IsPrefix(s, t) == Len(s) <= Len(t) /\ SubSeq(t, 1, Len(s)) = s

\* C18: opening a Database creates the table exactly when no file is at the
\* path; after the opening the table is there, on a new path and on an
\* existing one, the rows of an earlier session are as they were, and no
\* later record call fails in its flush.
C18_OpenLeavesTablePresent ==
    [][/\ (pc # "open" /\ pc' = "open") =>
             /\ store' = "table"
             /\ store = "absent" => table' = <<>>
             /\ store # "absent" => table' = table
       /\ calls' = calls + 1 => ret' # Raised]_vars

\* C19: while the flushes succeed, the stored rows followed by the buffered
\* rows are the accepted rows in the order of their acceptance, and a step
\* only adds to the end of the stored rows.
C19_StoredThenBufferedIsAccepted ==
    [][/\ table' \o data_buffer' = accepted'
       /\ IsPrefix(table, table')]_vars

\* rows are stored and rows are buffered, after calls that were rejected
C19_Witness ==
    /\ writes >= 2
    /\ data_buffer # <<>>
    /\ calls > Len(accepted)
    /\ buffer_size >= 2

\* C20: a flush whose write fails raises to the caller and loses no row: from
\* then on the stored rows followed by the buffered rows are still the
\* accepted rows, each once, also after a later flush that succeeds.
C20_FailedFlushLosesNothing ==
    [][/\ budget' < budget => (ret' = Raised /\ table' = table)
       /\ budget' < MaxFailures => table' \o data_buffer' = accepted']_vars

\* C6: when the session is over, every accepted row is in the table.
C6_AcceptedRowsStoredAtExit ==
    pc = "exited" => table = accepted

HasNull(row) == \E c \in Columns : row[c] = NONE

\* C5: run returns at most two rows, none of them with a null field, and a
\* row of the cycle that has a null field is not among them.
C5_ReturnedRowsHaveNoNull ==
    (rpc = "idle" /\ cycle > 0) =>
        /\ Len(out) <= 2
        /\ \A i \in 1..Len(out) : \A c \in Columns : out[i][c] # NONE
        /\ \A leg \in {0, 1} :
              HasNull(timesdf[leg]) =>
                 \A i \in 1..Len(out) :
                    out[i]["timestamp"][2] # timesdf[leg]["timestamp"][2]

\* a cycle has returned the return row alone: the outbound row lacked transit
C5_Witness ==
    /\ rpc = "idle"
    /\ cycle > 0
    /\ timesdf[0]["transit"] = NONE
    /\ timesdf[0]["driving"] # NONE
    /\ Len(out) = 1
    /\ out[1]["timestamp"][2] = timesdf[1]["timestamp"][2]

\* C13: once more than wait_time has passed since get_times began, it makes
\* no further attempt of get_traveltimes: it returns and the cycle goes on.
C13_NoAttemptAfterWait ==
    [][(rpc \in {"times0", "times1"} /\ late) => attempts' <= attempts]_vars

\* C15: the durations of a row were obtained while the origin box held the
\* row's depart coordinate and the destination box its arrive coordinate,
\* for the outbound row (after initialize_directions) and for the return row
\* (after reverse_direction).
C15_DurationsMatchRowDirection ==
    /\ rpc = "stamp0" =>
          /\ timesdf[0]["depart_lat"] = PyFloat(origin[1])
          /\ timesdf[0]["depart_lon"] = PyFloat(origin[2])
          /\ timesdf[0]["arrive_lat"] = PyFloat(dest[1])
          /\ timesdf[0]["arrive_lon"] = PyFloat(dest[2])
    /\ rpc = "stamp1" =>
          /\ timesdf[1]["depart_lat"] = PyFloat(origin[1])
          /\ timesdf[1]["depart_lon"] = PyFloat(origin[2])
          /\ timesdf[1]["arrive_lat"] = PyFloat(dest[1])
          /\ timesdf[1]["arrive_lon"] = PyFloat(dest[2])

\* C16: when run returns, row 1 is row 0 with arrive and depart exchanged, in
\* the coordinates and in the addresses, the returned rows included, and the
\* geocoder was called twice in the cycle.
C16_ReturnRowIsSwap ==
    (rpc = "idle" /\ cycle > 0) =>
        /\ geocalls = 2
        /\ \A k \in {"_lat", "_lon", "_add"} :
              /\ timesdf[1]["arrive" \o k] = timesdf[0]["depart" \o k]
              /\ timesdf[1]["depart" \o k] = timesdf[0]["arrive" \o k]
        /\ Len(out) = 2 =>
              \A k \in {"_lat", "_lon", "_add"} :
                 /\ out[2]["arrive" \o k] = out[1]["depart" \o k]
                 /\ out[2]["depart" \o k] = out[1]["arrive" \o k]

\* a cycle between two different points has returned both rows
C16_Witness ==
    /\ rpc = "idle"
    /\ cycle > 0
    /\ Len(out) = 2
    /\ out[1]["arrive_lat"] # out[1]["depart_lat"]
    /\ out[1]["arrive_add"] # out[1]["depart_add"]

C14_TimeoutGivesNull ==
    /\ wait_counter <= 10
    /\ \A m \in waited : m \in DOMAIN onewaytimes /\ onewaytimes[m] = NONE
    /\ tpc = "raised" => dir_keys[kidx] \notin waited
    /\ tpc = "returned" => DOMAIN onewaytimes = Modes

\* the call has returned: the polls of transit ran out, walk after it loaded
C14_Witness ==
    /\ tpc = "returned"
    /\ "transit" \in waited
    /\ onewaytimes["walk"] = PyInt(72)

\* C10: a failure of the geocoder does not abort the cycle.
C10_GeocodeFailureContained ==
    geofail => rpc # "raised"

\* C7: the point sample_sf returns is inside the perimeter and inside its
\* bounding box.
C7_SampledPointInside ==
    spc = "returned" =>
        /\ contains_point(sfpoint) = 1
        /\ ymin <= sfpoint[1] /\ sfpoint[1] <= ymax
        /\ xmin <= sfpoint[2] /\ sfpoint[2] <= xmax

\* sample_sf has returned after rejecting at least one candidate
C7_Witness ==
    /\ spc = "returned"
    /\ draws >= 2

\* a cap on the candidates of one sample_sf call, below MaxDraws
AttemptCap == 3

\* C12: sample_sf draws no more than the cap's number of candidates: it has
\* returned a point or stopped with a failure by then.
C12_SamplingStopsAtCap ==
    draws <= AttemptCap

\* C8: parse_times("47m") = 47, parse_times("1h 12m") = 72,
\* parse_times("2h") = 120.
C8_ParseExamples ==
    parsed # Pending =>
        /\ timestr = <<"4", "7", "m">> => parsed = Return(47)
        /\ timestr = <<"1", "h", " ", "1", "2", "m">> => parsed = Return(72)
        /\ timestr = <<"2", "h">> => parsed = Return(120)

\* C9: for a text that matches neither the hour pattern nor the minute
\* pattern parse_times returns no number.
C9_UnmatchedTextFails ==
    (parsed # Pending /\ HourSearch(timestr) = <<>> /\ MinuteSearch(timestr) = <<>>) =>
        parsed.kind # "return"

====
